---- MODULE Spec2Model ----
(***************************************************************************)
(* Model of the musinsa price tracker: the product detail extractor        *)
(* (app/crawler.py), the reconciliation and refresh engines                *)
(* (app/services.py), the persistent entities (app/models.py) behind a     *)
(* SQLAlchemy session (app/database.py), the price parser, the category    *)
(* cache and the category listing extractor (app/category_crawler.py),     *)
(* product deletion (app/main.py) and the scheduler with its jobs          *)
(* (app/scheduler.py).                                                     *)
(***************************************************************************)
EXTENDS Integers, Sequences, FiniteSets, TLC

VARIABLES
    products,       \* committed rows of table products
    price_history,  \* committed rows of table price_history
    product_id_seq, \* last value handed out by the products.id sequence
    sess,           \* per worker: its SQLAlchemy session and the call it runs
    procs,          \* the workers that issue calls
    xpc,            \* detail extractor: position of the fetch_product_data call
    xurl,           \* detail extractor: the url argument
    xnav,           \* detail extractor: outcome of page.goto
    xpage,          \* detail extractor: the <script> bodies of the rendered page
    xjson,          \* detail extractor: what extract_data_from_script_tag returned
    xresult,        \* detail extractor: what fetch_product_data gave its caller
    price_text,     \* price parser: the argument of parse_price_from_text
    price_result,   \* price parser: what parse_price_from_text did with it
    _cached_categories,  \* category cache: the global _cached_categories
    _cache_timestamp,    \* category cache: the global _cache_timestamp
    clock,          \* category cache: what time.time() returns now
    calls,          \* category cache: per caller, its get_cached_categories call
    crawl,          \* category listing: the running fetch_category_products call
    scheduler,      \* scheduler.py: the AsyncIOScheduler instance and its jobs
    content,        \* brace scan: the inner text of the script
    state_object,   \* brace scan: the JSON text the script assigns to the state
    json_text       \* brace scan: the text the scan isolated

dbvars == <<products, price_history, product_id_seq, sess, procs>>
xvars == <<xpc, xurl, xnav, xpage, xjson, xresult>>
pvars == <<price_text, price_result>>
kvars == <<_cached_categories, _cache_timestamp, clock, calls>>
cvars == <<crawl>>
svars == <<scheduler>>
bvars == <<content, state_object, json_text>>
vars == <<products, price_history, product_id_seq, sess, procs,
          xpc, xurl, xnav, xpage, xjson, xresult,
          price_text, price_result,
          _cached_categories, _cache_timestamp, clock, calls, crawl,
          scheduler, content, state_object, json_text>>

(***************************************************************************)
(* JSON / Python values.  A value carries its type tag; a string is the    *)
(* sequence of its characters; None is "null"; a key that the JSON object  *)
(* does not hold is "absent" (dict.get then yields its default).           *)
(***************************************************************************)
Absent == [t |-> "absent"]
Null == [t |-> "null"]
Str(s) == [t |-> "str", s |-> s]
Num(n) == [t |-> "num", n |-> n]
Bool(b) == [t |-> "bool", b |-> b]
List(q) == [t |-> "list", items |-> q]
Obj(f) == [t |-> "obj", f |-> f]

\* dict.get(key, default) on a parsed JSON object
Get(obj, key, default) ==
    IF key \notin DOMAIN obj.f THEN default
    ELSE IF obj.f[key].t = "absent" THEN default ELSE obj.f[key]

\* the literal {} used as a default
EmptyDict == Obj([k \in {} |-> Absent])

\* Python truth value
Truthy(v) ==
    CASE v.t = "null" -> FALSE
      [] v.t = "absent" -> FALSE
      [] v.t = "str" -> Len(v.s) > 0
      [] v.t = "num" -> v.n # 0
      [] v.t = "bool" -> v.b
      [] v.t = "list" -> Len(v.items) > 0
      [] v.t = "obj" -> \E k \in DOMAIN v.f : v.f[k].t # "absent"

\* str.startswith
StartsWith(s, p) == Len(s) >= Len(p) /\ SubSeq(s, 1, Len(p)) = p

\* the outcome of a piece of Python code: a returned value or a raised exception
Return(v) == [kind |-> "return", value |-> v]
Raise(e) == [kind |-> "raise", exc |-> e]

(***************************************************************************)
(* app/crawler.py: the product detail extractor                            *)
(***************************************************************************)
Digits == <<"0", "1", "2", "3", "4", "5", "6", "7", "8", "9">>
IsDigit(c) == \E d \in 1..10 : Digits[d] = c
DigitVal(c) == (CHOOSE d \in 1..10 : Digits[d] = c) - 1

RECURSIVE StrToNat(_)
StrToNat(s) ==
    IF Len(s) = 0 THEN 0
    ELSE 10 * StrToNat(SubSeq(s, 1, Len(s) - 1)) + DigitVal(s[Len(s)])

\* float(x) of Python: a number converts, a numeric string parses, a
\* non-numeric string is a ValueError, None (or a container) a TypeError
PyFloat(v) ==
    CASE v.t = "num" -> Return(v)
      [] v.t = "bool" -> Return(Num(IF v.b THEN 1 ELSE 0))
      [] v.t = "str" ->
            IF Len(v.s) > 0 /\ \A i \in 1..Len(v.s) : IsDigit(v.s[i])
            THEN Return(Num(StrToNat(v.s)))
            ELSE Raise("ValueError")
      [] OTHER -> Raise("TypeError")

\* x.get(key, default) where x came out of the JSON: only a dict has .get
SubGet(x, key, default) ==
    IF x.t = "obj" THEN Return(Get(x, key, default)) ELSE Raise("AttributeError")

\* data.get(name, {}) followed by "if x is None: x = {}"
SubObject(data, name) ==
    LET x == Get(data, name, EmptyDict) IN IF x.t = "null" THEN EmptyDict ELSE x

RECURSIVE JoinSlash(_)
JoinSlash(items) ==
    IF Len(items) = 0 THEN <<>>
    ELSE IF Len(items) = 1 THEN items[1].s
    ELSE items[1].s \o <<"/">> \o JoinSlash(Tail(items))

\* line 116: gender = "/".join(genders) if genders else <unspecified>; the
\* Korean literal is written "gongyong" here
GenderOf(genders) ==
    IF ~Truthy(genders) THEN Return(Str(<<"gongyong">>))
    ELSE IF genders.t = "list" /\ \A i \in 1..Len(genders.items) : genders.items[i].t = "str"
    THEN Return(Str(JoinSlash(genders.items)))
    ELSE Raise("TypeError")

\* line 119: if product_name and brand and image_url
RequiredNoBrand(product_name, brand, image_url) ==
    Truthy(product_name) /\ Truthy(image_url)
RequiredPresent(product_name, brand, image_url) ==
    Truthy(product_name) /\ Truthy(brand) /\ Truthy(image_url)

\* lines 122-126: a protocol-relative or root-relative image URL is made absolute
NormalizeImageUrl(image_url) ==
    IF image_url.t # "str" THEN Raise("AttributeError")
    ELSE IF StartsWith(image_url.s, <<"/", "/">>)
    THEN Return(Str(<<"h", "t", "t", "p", "s", ":">> \o image_url.s))
    ELSE IF StartsWith(image_url.s, <<"/">>)
    THEN Return(Str(<<"https://image.msscdn.net">> \o image_url.s))
    ELSE Return(image_url)

FirstRaise(outcomes) ==
    LET bad == {i \in 1..Len(outcomes) : outcomes[i].kind = "raise"} IN
    IF bad = {} THEN Null
    ELSE outcomes[CHOOSE i \in bad : \A j \in bad : i <= j]

\* lines 55-150: the body of the inner try once json.loads has given `data`.
\* Return(Null) stands for falling out of the if of line 119 without a return.
SnapshotFromState(data) ==
    LET product_name == Get(data, "goodsNm", Null)
        goods_no == Get(data, "goodsNo", Null)
        brand_info == SubObject(data, "brandInfo")
        brand == SubGet(brand_info, "brandName", Null)
        brand_english == SubGet(brand_info, "brandEnglishName", Null)
        image_url == Get(data, "thumbnailImageUrl", Null)
        price_info == SubObject(data, "goodsPrice")
        normal_raw == SubGet(price_info, "normalPrice", Num(0))
        sale_raw == SubGet(price_info, "salePrice", Num(0))
        normal_price == IF normal_raw.kind = "raise" THEN normal_raw
                        ELSE PyFloat(normal_raw.value)
        sale_price == IF sale_raw.kind = "raise" THEN sale_raw
                      ELSE PyFloat(sale_raw.value)
        discount_rate == SubGet(price_info, "discountRate", Num(0))
        is_sale == SubGet(price_info, "isSale", Bool(FALSE))
        category_info == SubObject(data, "category")
        category_depth1 == SubGet(category_info, "categoryDepth1Name", Str(<<>>))
        category_depth2 == SubGet(category_info, "categoryDepth2Name", Str(<<>>))
        category_depth3 == SubGet(category_info, "categoryDepth3Name", Str(<<>>))
        category_depth1_code == SubGet(category_info, "categoryDepth1Code", Str(<<>>))
        category_depth2_code == SubGet(category_info, "categoryDepth2Code", Str(<<>>))
        category_depth3_code == SubGet(category_info, "categoryDepth3Code", Str(<<>>))
        out_of_stock == Get(data, "outOfStock", Bool(FALSE))
        is_sold_out == Get(data, "isSoldOut", out_of_stock)
        review_info == SubObject(data, "goodsReview")
        review_count == SubGet(review_info, "totalCount", Num(0))
        review_score == SubGet(review_info, "satisfactionScore", Num(0))
        logistics_info == SubObject(data, "goodsLogisticsInfo")
        delivery_info == SubGet(logistics_info, "deliveryInfoName", Str(<<>>))
        courier_name == SubGet(logistics_info, "courierName", Str(<<>>))
        gender == GenderOf(Get(data, "genders", List(<<>>)))
        \* the statements of lines 56-116 in program order: the first that raises
        \* leaves the try block
        raised == FirstRaise(<<brand, brand_english, normal_price, sale_price,
                               discount_rate, is_sale, category_depth1,
                               category_depth2, category_depth3,
                               category_depth1_code, category_depth2_code,
                               category_depth3_code, review_count, review_score,
                               delivery_info, courier_name, gender>>)
    IN
    IF raised # Null THEN raised
    ELSE IF ~RequiredPresent(product_name, brand.value, image_url) THEN Return(Null)
    ELSE LET image == NormalizeImageUrl(image_url) IN
         IF image.kind = "raise" THEN image
         ELSE Return(Obj([
            product_name |-> product_name,
            goods_no |-> goods_no,
            brand |-> brand.value,
            brand_english |-> brand_english.value,
            category |-> IF Truthy(category_depth2.value)
                         THEN category_depth2.value ELSE category_depth1.value,
            category_depth1 |-> category_depth1.value,
            category_depth1_code |-> category_depth1_code.value,
            category_depth2 |-> category_depth2.value,
            category_depth2_code |-> category_depth2_code.value,
            category_depth3 |-> category_depth3.value,
            category_depth3_code |-> category_depth3_code.value,
            image_url |-> image.value,
            review_count |-> review_count.value,
            review_score |-> review_score.value,
            normal_price |-> normal_price.value,
            sale_price |-> sale_price.value,
            discount_rate |-> discount_rate.value,
            is_sale |-> is_sale.value,
            is_sold_out |-> is_sold_out]))

(***************************************************************************)
(* A <script> body, as far as the scan of lines 26-54 can tell bodies      *)
(* apart: marker (both marker substrings occur), pattern (the assignment   *)
(* 'window.__MSS__.product.state = ' occurs), balanced (the brace scan     *)
(* ends with brace_count = 0) and parsed (what json.loads makes of the     *)
(* isolated text: a state object, or Null for a JSONDecodeError).          *)
(***************************************************************************)
Script(marker, pattern, balanced, parsed) ==
    [marker |-> marker, pattern |-> pattern, balanced |-> balanced, parsed |-> parsed]

\* lines 53-154: what the loop does with the outcome r of the inner try body
ScanResult(r) ==
    IF r.kind = "raise" THEN r
    ELSE IF r.value.t = "null" THEN Return(Null)                 \* break, line 154
    ELSE r

\* lines 26-154: the for loop over the scripts, from script i on
RECURSIVE ScanScripts(_, _)
ScanScripts(scripts, i) ==
    IF i > Len(scripts) THEN Return(Null)
    ELSE IF ~scripts[i].marker THEN ScanScripts(scripts, i + 1)
    ELSE IF ~scripts[i].pattern THEN Return(Null)                \* break, line 154
    ELSE IF ~scripts[i].balanced THEN Return(Null)               \* break, line 154
    ELSE IF scripts[i].parsed.t = "null"
         THEN ScanScripts(scripts, i + 1)                        \* continue, line 153
    ELSE ScanResult(SnapshotFromState(scripts[i].parsed))

\* lines 23, 155-159: the outer try of extract_data_from_script_tag
ExtractExcept(outcome) ==
    IF outcome.kind = "raise" THEN Return(Null) ELSE outcome

extract_data_from_script_tag(page) == ExtractExcept(ScanScripts(page, 1))

\* x or default
Or(x, default) == IF Truthy(x) THEN x ELSE default

\* lines 233-237: the except clause of fetch_product_data
FetchExceptReraise(outcome) == outcome
FetchExcept(outcome) ==
    IF outcome.kind = "raise" THEN Return(Null) ELSE outcome

\* lines 176-231: fetch_product_data once the extractor has given json_data
FetchResult(url, json_data) ==
    IF json_data.kind = "raise" THEN json_data
    ELSE IF ~Truthy(json_data.value) THEN Return(Null)
    ELSE Return(Obj([
            product_name |-> json_data.value.f.product_name,
            goods_no |-> json_data.value.f.goods_no,
            brand |-> Or(json_data.value.f.brand, Str(<<"al su eopseum">>)),
            brand_english |-> json_data.value.f.brand_english,
            category |-> Or(json_data.value.f.category, Str(<<"gita">>)),
            category_depth1 |-> json_data.value.f.category_depth1,
            category_depth1_code |-> json_data.value.f.category_depth1_code,
            category_depth2 |-> json_data.value.f.category_depth2,
            category_depth2_code |-> json_data.value.f.category_depth2_code,
            category_depth3 |-> json_data.value.f.category_depth3,
            category_depth3_code |-> json_data.value.f.category_depth3_code,
            product_url |-> url,
            image_url |-> json_data.value.f.image_url,
            review_count |-> json_data.value.f.review_count,
            review_score |-> json_data.value.f.review_score,
            is_active |-> Bool(TRUE),
            normal_price |-> json_data.value.f.normal_price,
            sale_price |-> json_data.value.f.sale_price,
            discount_rate |-> json_data.value.f.discount_rate,
            is_sold_out |-> json_data.value.f.is_sold_out]))

\* lines 162-237; nav is what page.goto does ("ok" or "timeout")
fetch_product_data(url, nav, page) ==
    FetchExcept(
        IF nav = "timeout" THEN Raise("TimeoutError")
        ELSE FetchResult(url, extract_data_from_script_tag(page)))

(***************************************************************************)
(* The pages the extractor is run on.                                      *)
(***************************************************************************)
NumUrls == 2
Urls == 1..NumUrls
MaxScripts == 2

StateObject(nm, bi, img, gp, cat, rev, log, gen) ==
    Obj([goodsNm |-> nm, goodsNo |-> Num(7), styleNo |-> Absent,
         brandInfo |-> bi, thumbnailImageUrl |-> img, goodsPrice |-> gp,
         category |-> cat, outOfStock |-> Absent, isSoldOut |-> Absent,
         goodsReview |-> rev, goodsLogisticsInfo |-> log, genders |-> gen])

GoodName == Str(<<"n">>)
GoodBrand == Obj([brandName |-> Str(<<"b">>), brandEnglishName |-> Str(<<"e">>)])
GoodImage == Str(<<"/", "/", "i">>)

NameValues == {Absent, Null, Str(<<>>), GoodName}
BrandInfoValues ==
    {Absent, Null, Obj([brandName |-> Absent]), Obj([brandName |-> Null]),
     Obj([brandName |-> Str(<<>>)]), GoodBrand}
ImageValues ==
    {Absent, Null, Str(<<>>), GoodImage, Str(<<"/", "i">>), Str(<<"h", "i">>), Num(5)}
PriceValues ==
    {Absent, Null, Obj([normalPrice |-> Absent]),
     Obj([normalPrice |-> Null, salePrice |-> Num(800)]),
     Obj([normalPrice |-> Num(1000), salePrice |-> Num(800),
          discountRate |-> Num(20), isSale |-> Bool(TRUE)]),
     Obj([normalPrice |-> Str(<<"1", "0">>), salePrice |-> Str(<<"x">>)])}
ReviewValues ==
    {Absent, Null, Obj([totalCount |-> Null, satisfactionScore |-> Null]),
     Obj([totalCount |-> Num(3), satisfactionScore |-> Num(4)])}
CategoryValues ==
    {Absent, Null, Obj([categoryDepth1Name |-> Str(<<"t">>)]),
     Obj([categoryDepth1Name |-> Str(<<"t">>), categoryDepth2Name |-> Str(<<"s">>)]),
     Obj([categoryDepth1Name |-> Str(<<"t">>), categoryDepth2Name |-> Null])}
LogisticsValues == {Absent, Null}
GenderValues ==
    {Absent, Null, List(<<>>), List(<<Str(<<"M">>), Str(<<"F">>)>>), List(<<Num(1)>>)}

\* every state of the three required fields, and every state of the optional
\* sub-objects beside a complete set of required fields
StateObjects ==
    {StateObject(nm, bi, img, gp, Absent, Absent, Absent, gen) :
        nm \in NameValues, bi \in BrandInfoValues, img \in ImageValues,
        gp \in {Absent, Null}, gen \in {Absent, Null}}
    \cup
    {StateObject(GoodName, GoodBrand, GoodImage, gp, cat, rev, log, gen) :
        gp \in PriceValues, cat \in CategoryValues, rev \in ReviewValues,
        log \in LogisticsValues, gen \in GenderValues}

GoodState ==
    StateObject(GoodName, GoodBrand, GoodImage, Absent, Absent, Absent, Absent, Absent)
NamelessState ==
    StateObject(Absent, GoodBrand, GoodImage, Absent, Absent, Absent, Absent, Absent)

ScriptKinds ==
    {Script(FALSE, FALSE, TRUE, Null),      \* some other script
     Script(TRUE, FALSE, TRUE, Null),       \* marker words, no assignment
     Script(TRUE, TRUE, FALSE, Null),       \* braces never balance
     Script(TRUE, TRUE, TRUE, Null),        \* json.loads fails
     Script(TRUE, TRUE, TRUE, GoodState),
     Script(TRUE, TRUE, TRUE, NamelessState)}

Pages ==
    {<<Script(TRUE, TRUE, TRUE, d)>> : d \in StateObjects}
    \cup UNION {[1..n -> ScriptKinds] : n \in 0..MaxScripts}

NotCalled == [kind |-> "none"]

\* no parse_price_from_text call has been made
IdlePrice ==
    /\ price_text = <<>>
    /\ price_result = NotCalled

\* category_crawler.py: the cache as the module is imported (lines 123-124)
\* and no fetch_category_products call made
IdleCategory ==
    /\ _cached_categories = Null
    /\ _cache_timestamp = Null
    /\ clock = 0
    /\ calls = [c \in {} |-> 0]
    /\ crawl = [pc |-> "idle"]

\* scheduler.py 23: the scheduler as the module is imported: not running,
\* no job added
IdleScheduler == scheduler = [running |-> FALSE]

\* no script is being scanned
IdleScan ==
    /\ content = <<>>
    /\ state_object = <<>>
    /\ json_text = NotCalled

InitDb ==
    /\ products = {}
    /\ price_history = {}
    /\ product_id_seq = 0

InitExtract ==
    /\ InitDb
    /\ procs = {}
    /\ sess = [s \in {} |-> 0]
    /\ xpc = "goto"
    /\ xurl \in Urls
    /\ xnav \in {"ok", "timeout"}
    /\ xpage \in Pages
    /\ xjson = NotCalled
    /\ xresult = NotCalled
    /\ IdleScheduler /\ IdleScan
    /\ IdlePrice /\ IdleCategory

\* line 169: await page.goto(url, ...)
Navigate ==
    /\ xpc = "goto"
    /\ xpc' = IF xnav = "ok" THEN "extract" ELSE "return"
    /\ UNCHANGED <<xurl, xnav, xpage, xjson, xresult>>
    /\ UNCHANGED <<dbvars, pvars, kvars, cvars, svars, bvars>>

\* line 173: json_data = await extract_data_from_script_tag(page)
ExtractData ==
    /\ xpc = "extract"
    /\ xjson' = extract_data_from_script_tag(xpage)
    /\ xpc' = "return"
    /\ UNCHANGED <<xurl, xnav, xpage, xresult>>
    /\ UNCHANGED <<dbvars, pvars, kvars, cvars, svars, bvars>>

\* lines 176-237: what the caller of fetch_product_data receives
FetchReturn ==
    /\ xpc = "return"
    /\ xresult' = fetch_product_data(xurl, xnav, xpage)
    /\ xpc' = "done"
    /\ UNCHANGED <<xurl, xnav, xpage, xjson>>
    /\ UNCHANGED <<dbvars, pvars, kvars, cvars, svars, bvars>>

NextExtract == Navigate \/ ExtractData \/ FetchReturn

SpecExtract == InitExtract /\ [][NextExtract]_vars

(***************************************************************************)
(* app/models.py, app/database.py: the tables and the session.             *)
(*                                                                         *)
(* A worker owns one Session (SessionLocal(): autocommit and autoflush     *)
(* off).  Rows it has flushed are in its transaction (new_products) and    *)
(* are seen by its own queries only; commit makes them durable, close or   *)
(* rollback drops them.  A flush that raises rolls the transaction back    *)
(* and leaves the session unusable (every later query or commit raises     *)
(* PendingRollbackError) until rollback() is called, which the service     *)
(* functions never do.  The workers are separate sessions on one database  *)
(* and interleave statement by statement.                                  *)
(***************************************************************************)
NumCats == 2
MaxPerCategory == 1
MaxId == 3
Categories == 1..NumCats

\* models.py 47-63: the attributes of class PriceHistory
PriceHistoryAttributes ==
    {"id", "product_id", "price", "discount_price", "discount_rate",
     "stock_status", "is_sold_out", "crawled_at", "product"}

\* services.py 51-57, 129-135, 198-204, 266-272: the keyword arguments every
\* call site passes to models.PriceHistory(...)
PriceHistoryKwargs ==
    {"product_id", "normal_price", "sale_price", "discount_rate", "is_sold_out"}

\* database.py 19: Base = declarative_base(); its constructor sets each
\* keyword argument that names an attribute of the class and raises TypeError
\* for one that does not
DeclarativeConstructor(attributes, kwargs) ==
    IF kwargs \subseteq attributes THEN "ok" ELSE "TypeError"

\* models.py 28: product_url = Column(String, unique=True, index=True)
UniqueIndexOff(rows, product_url) == FALSE
UniqueIndexHit(rows, product_url) ==
    \E p \in rows : p.product_url = product_url

\* a row of products: the descriptive fields of a listing snapshot are those
\* of its element under the category it was listed in; category 0 stands for
\* the fields read from the detail page
ProductRow(id, product_url, category) ==
    [id |-> id, product_url |-> product_url, category |-> category,
     is_active |-> TRUE]

PriceHistoryRow(id, product_id) == [id |-> id, product_id |-> product_id]

\* uncommitted rows of the other workers
OthersNew(s) == UNION {sess[t].new_products : t \in procs \ {s}}

\* db.query(models.Product).filter(product_url == url).first() in session s
Visible(s) == products \cup sess[s].new_products
ExistingProduct(s, product_url) ==
    {p \in Visible(s) : p.product_url = product_url}

\* what db.flush() of one new Product does in session s.  An INSERT whose
\* product_url is held by another open transaction waits for it ("wait"),
\* unless that transaction waits for a row of s: the database then breaks
\* the deadlock with an error.
WaitsFor(t, rows) ==
    /\ sess[t].pc = "flush"
    /\ UniqueIndexHit(rows, sess[t].product_url)
FlushOutcome(s, product_url) ==
    IF UniqueIndexHit(Visible(s), product_url) THEN "IntegrityError"
    ELSE IF UniqueIndexHit(OthersNew(s), product_url)
    THEN IF \E t \in procs \ {s} :
                /\ UniqueIndexHit(sess[t].new_products, product_url)
                /\ WaitsFor(t, sess[s].new_products)
         THEN "DeadlockError" ELSE "wait"
    ELSE "inserted"

NoCall == [op |-> "none"]

Idle ==
    [op |-> "idle", pc |-> "idle",
     active |-> TRUE, new_products |-> {}, new_history |-> {},
     results |-> <<>>, ci |-> 1, pi |-> 1,
     saved_count |-> 0, skipped_count |-> 0, category_results |-> <<>>,
     total_crawled |-> 0, total_saved |-> 0, total_skipped |-> 0,
     product_url |-> 0, category |-> 0,
     active_products |-> <<>>, k |-> 1, success_count |-> 0, error_count |-> 0,
     outcome |-> "none",
     delays |-> 0,   \* the asyncio.sleep(2) calls of line 224 that have elapsed
     \* bookkeeping for the properties, not program state
     raised |-> 0, fetch_failed |-> 0, empty_before |-> FALSE,
     added |-> {}, appended |-> {}, last |-> NoCall]

\* the pages the services' fetch_product_data calls meet
ServicePages == {<<>>, <<Script(TRUE, TRUE, TRUE, GoodState)>>}

\* duplicate-free sequences of URLs: fetch_category_products deduplicates
\* by URL within one category
UrlLists ==
    {q \in UNION {[1..n -> Urls] : n \in 0..MaxPerCategory} :
        \A i, j \in 1..Len(q) : i # j => q[i] # q[j]}

\* fetch_multiple_categories: a dict category_code -> products, in the order
\* of the requested codes
Batches ==
    {r \in UNION {[1..n -> [category_code : Categories, products_data : UrlLists]] :
                    n \in 1..NumCats} :
        \A i, j \in 1..Len(r) : i # j => r[i].category_code # r[j].category_code}

(***************************************************************************)
(* app/services.py                                                         *)
(***************************************************************************)
\* an exception leaves the service function
Raised(r) == [r EXCEPT !.pc = "done", !.outcome = "raised"]

\* a failed flush: the transaction is rolled back and the session is left
\* inactive
FlushFailed(r) ==
    [r EXCEPT !.active = FALSE, !.new_products = {}, !.new_history = {}]

\* ---- create_product_from_url, lines 14-62 ----

\* lines 18-23
CreateLookup(s) ==
    /\ sess[s].pc = "idle"
    /\ \E u \in Urls :
        LET r == [Idle EXCEPT !.op = "create", !.product_url = u,
                              !.last = sess[s].last] IN
        sess' = [sess EXCEPT ![s] =
                    IF ExistingProduct(s, u) # {} THEN Raised(r)
                    ELSE [r EXCEPT !.pc = "fetch"]]
    /\ UNCHANGED <<products, price_history, product_id_seq, procs>>
    /\ UNCHANGED <<xvars, pvars, kvars, cvars, svars, bvars>>

\* lines 26-29
CreateFetch(s) ==
    /\ sess[s].op = "create" /\ sess[s].pc = "fetch"
    /\ \E nav \in {"ok", "timeout"}, page \in ServicePages :
       \E crawled_data \in {fetch_product_data(sess[s].product_url, nav, page)} :
        sess' = [sess EXCEPT ![s] =
                    IF crawled_data.kind = "raise" THEN Raised(sess[s])
                    ELSE IF ~Truthy(crawled_data.value)
                    THEN Raised(sess[s])                          \* line 29
                    ELSE [sess[s] EXCEPT !.pc = "flush"]]
    /\ UNCHANGED <<products, price_history, product_id_seq, procs>>
    /\ UNCHANGED <<xvars, pvars, kvars, cvars, svars, bvars>>

\* lines 46-59: add, flush, the PriceHistory constructor, add
CreateFlush(s) ==
    LET r == sess[s]
        out == FlushOutcome(s, r.product_url)
        row == ProductRow(product_id_seq + 1, r.product_url, 0)
        made == DeclarativeConstructor(PriceHistoryAttributes, PriceHistoryKwargs)
    IN
    /\ r.op = "create" /\ r.pc = "flush"
    /\ out # "wait"
    /\ out = "inserted" => product_id_seq < MaxId
    /\ IF out # "inserted"
       THEN /\ sess' = [sess EXCEPT ![s] = Raised(FlushFailed(r))]
            /\ UNCHANGED product_id_seq
       ELSE /\ product_id_seq' = product_id_seq + 1
            /\ sess' = [sess EXCEPT ![s] =
                 IF made # "ok"
                 THEN Raised([r EXCEPT !.new_products = @ \cup {row}])
                 ELSE [r EXCEPT !.new_products = @ \cup {row},
                                !.new_history = @ \cup {row.id},
                                !.pc = "commit"]]
    /\ UNCHANGED <<products, price_history, procs>>
    /\ UNCHANGED <<xvars, pvars, kvars, cvars, svars, bvars>>

\* ---- crawl_and_save_multiple_categories, lines 65-174 ----

\* lines 143-151 and the loop heads of lines 88 and 95: move to the next
\* snapshot; at the end of a category close its counts, after the last
\* category go to the commit of line 154
RECURSIVE Advance(_)
Advance(r) ==
    IF r.ci > Len(r.results) THEN [r EXCEPT !.pc = "commit"]
    ELSE IF r.pi <= Len(r.results[r.ci].products_data)
    THEN [r EXCEPT !.pc = "lookup",
                   !.product_url = r.results[r.ci].products_data[r.pi],
                   !.category = r.results[r.ci].category_code]
    ELSE Advance([r EXCEPT
            !.total_crawled = @ + Len(r.results[r.ci].products_data),
            !.total_saved = @ + r.saved_count,
            !.total_skipped = @ + r.skipped_count,
            !.category_results = Append(@,
                [crawled |-> Len(r.results[r.ci].products_data),
                 saved |-> r.saved_count, skipped |-> r.skipped_count]),
            !.saved_count = 0, !.skipped_count = 0,
            !.ci = @ + 1, !.pi = 1])

\* a loop body that commits after the snapshot it has just handled
NextItemCommits(r) == [r EXCEPT !.pc = "commit"]

\* continue with the snapshot after the current one
NextItem(r) == Advance([r EXCEPT !.pi = @ + 1])

\* the snapshots of a batch, flattened
RECURSIVE BatchUrls(_)
BatchUrls(results) ==
    IF Len(results) = 0 THEN <<>>
    ELSE results[1].products_data \o BatchUrls(Tail(results))

\* lines 74-93: the categories have been crawled, save_to_db and db are set
ReconcileStart(s) ==
    /\ sess[s].pc = "idle"
    /\ \E results \in Batches :
        sess' = [sess EXCEPT ![s] =
            Advance([Idle EXCEPT !.op = "reconcile", !.results = results,
                                 !.empty_before = (procs = {s} /\ products = {}),
                                 !.last = sess[s].last])]
    /\ UNCHANGED <<products, price_history, product_id_seq, procs>>
    /\ UNCHANGED <<xvars, pvars, kvars, cvars, svars, bvars>>

\* lines 106-108: existing_product was found
SkipRefresh(r, existing_product) ==
    [r EXCEPT !.skipped_count = @ + 1,
              !.new_history = @ \cup {existing_product.id}]
Skip(r, existing_product) == [r EXCEPT !.skipped_count = @ + 1]

\* lines 96-108, 139-141: the duplicate check by URL
ReconcileLookup(s) ==
    LET r == sess[s] IN
    /\ r.op = "reconcile" /\ r.pc = "lookup"
    /\ sess' = [sess EXCEPT ![s] =
            IF ~r.active
            THEN NextItem([r EXCEPT !.raised = @ + 1])  \* PendingRollbackError
            ELSE IF ExistingProduct(s, r.product_url) # {}
            THEN NextItem(Skip(r, CHOOSE p \in ExistingProduct(s, r.product_url) : TRUE))
            ELSE [r EXCEPT !.pc = "flush"]]
    /\ UNCHANGED <<products, price_history, product_id_seq, procs>>
    /\ UNCHANGED <<xvars, pvars, kvars, cvars, svars, bvars>>

\* lines 111-141: add, flush, the PriceHistory constructor, add, saved_count
ReconcileFlush(s) ==
    LET r == sess[s]
        out == FlushOutcome(s, r.product_url)
        row == ProductRow(product_id_seq + 1, r.product_url, r.category)
        made == DeclarativeConstructor(PriceHistoryAttributes, PriceHistoryKwargs)
    IN
    /\ r.op = "reconcile" /\ r.pc = "flush"
    /\ out # "wait"
    /\ out = "inserted" => product_id_seq < MaxId
    /\ IF out # "inserted"
       THEN /\ sess' = [sess EXCEPT ![s] =
                    NextItem([FlushFailed(r) EXCEPT !.raised = @ + 1])]
            /\ UNCHANGED product_id_seq
       ELSE /\ product_id_seq' = product_id_seq + 1
            /\ sess' = [sess EXCEPT ![s] =
                 IF made # "ok"
                 THEN NextItem([r EXCEPT !.new_products = @ \cup {row},
                                         !.raised = @ + 1])
                 ELSE NextItem([r EXCEPT !.new_products = @ \cup {row},
                                         !.new_history = @ \cup {row.id},
                                         !.saved_count = @ + 1])]
    /\ UNCHANGED <<products, price_history, procs>>
    /\ UNCHANGED <<xvars, pvars, kvars, cvars, svars, bvars>>

\* ---- update_product_prices, lines 177-244 ----

\* a set of rows as a list, by id
RECURSIVE RowsById(_)
RowsById(rows) ==
    IF rows = {} THEN <<>>
    ELSE LET p == CHOOSE x \in rows : \A y \in rows : x.id <= y.id IN
         <<p>> \o RowsById(rows \ {p})

\* lines 181-189
UpdateStart(s) ==
    /\ sess[s].pc = "idle"
    /\ LET active_products == RowsById({p \in Visible(s) : p.is_active}) IN
       sess' = [sess EXCEPT ![s] =
            [Idle EXCEPT !.op = "update", !.active_products = active_products,
                         !.pc = IF Len(active_products) = 0 THEN "commit"
                                ELSE "crawl",
                         !.last = sess[s].last]]
    /\ UNCHANGED <<products, price_history, product_id_seq, procs>>
    /\ UNCHANGED <<xvars, pvars, kvars, cvars, svars, bvars>>

\* lines 191-233: one product of the loop.  The delay of line 224 is the
\* last statement of the try body: an exception raised before it goes to
\* the except of line 226 and the loop moves on at once.
UpdateCrawl(s) ==
    LET r == sess[s]
        product == r.active_products[r.k]
        made == DeclarativeConstructor(PriceHistoryAttributes, PriceHistoryKwargs)
        next(q) == [q EXCEPT !.k = @ + 1,
                             !.pc = IF r.k = Len(r.active_products)
                                    THEN "commit" ELSE "crawl"]
    IN
    /\ r.op = "update" /\ r.pc = "crawl"
    /\ \E nav \in {"ok", "timeout"}, page \in ServicePages :
       \E crawled_data \in {fetch_product_data(product.product_url, nav, page)} :
        sess' = [sess EXCEPT ![s] =
            IF crawled_data.kind = "raise"                       \* lines 226-233
            THEN next([r EXCEPT !.error_count = @ + 1, !.raised = @ + 1])
            ELSE IF ~Truthy(crawled_data.value)            \* lines 214-221, 224
            THEN next([r EXCEPT !.error_count = @ + 1, !.fetch_failed = @ + 1,
                                !.delays = @ + 1])
            ELSE IF made # "ok"
            THEN next([r EXCEPT !.error_count = @ + 1, !.raised = @ + 1])
            ELSE next([r EXCEPT !.new_history = @ \cup {product.id},  \* 198-224
                                !.success_count = @ + 1,
                                !.delays = @ + 1])]
    /\ UNCHANGED <<products, price_history, product_id_seq, procs>>
    /\ UNCHANGED <<xvars, pvars, kvars, cvars, svars, bvars>>

\* ---- the session ----

\* ids for the rows of price_history that a commit inserts
RECURSIVE HistoryRows(_, _)
HistoryRows(product_ids, after) ==
    IF product_ids = {} THEN {}
    ELSE LET i == CHOOSE x \in product_ids : \A y \in product_ids : x <= y IN
         {PriceHistoryRow(after + 1, i)} \cup HistoryRows(product_ids \ {i}, after + 1)

MaxHistoryId ==
    IF price_history = {} THEN 0
    ELSE CHOOSE n \in {h.id : h \in price_history} :
            \A h \in price_history : h.id <= n

\* a commit that writes the tables anew from the rows of the transaction
CommitReplacing(s) ==
    /\ sess[s].pc = "commit"
    /\ products' = sess[s].new_products
    /\ price_history' = HistoryRows(sess[s].new_history, 0)
    /\ sess' = [sess EXCEPT ![s] =
            [sess[s] EXCEPT !.pc = "done", !.outcome = "returned",
                            !.new_products = {}, !.new_history = {}]]
    /\ UNCHANGED <<product_id_seq, procs>>
    /\ UNCHANGED <<xvars, pvars, kvars, cvars, svars, bvars>>

\* db.commit() (lines 59, 154, 236): the pending PriceHistory rows are
\* flushed and the transaction is made durable; on an inactive session it
\* raises PendingRollbackError
Commit(s) ==
    LET r == sess[s] IN
    /\ r.pc = "commit"
    /\ IF ~r.active
       THEN /\ sess' = [sess EXCEPT ![s] = Raised(r)]
            /\ UNCHANGED <<products, price_history>>
       ELSE /\ products' = products \cup r.new_products
            /\ price_history' =
                    price_history \cup HistoryRows(r.new_history, MaxHistoryId)
            /\ sess' = [sess EXCEPT ![s] =
                    [r EXCEPT !.pc = "done", !.outcome = "returned",
                              !.added = {p.id : p \in r.new_products},
                              !.appended = r.new_history,
                              !.new_products = {}, !.new_history = {}]]
    /\ UNCHANGED <<product_id_seq, procs>>
    /\ UNCHANGED <<xvars, pvars, kvars, cvars, svars, bvars>>

\* database.py 27-29, scheduler.py 78-82: the caller closes the session; what
\* was not committed is rolled back.  A lone worker remembers the
\* reconciliation it just ran (last), for the properties about two runs in a
\* row.
Close(s) ==
    LET r == sess[s] IN
    /\ r.pc = "done"
    /\ sess' = [sess EXCEPT ![s] =
            [Idle EXCEPT !.last =
                IF r.op = "reconcile" /\ procs = {s}
                THEN [op |-> "reconcile", results |-> r.results,
                      empty_before |-> r.empty_before, outcome |-> r.outcome,
                      total_saved |-> r.total_saved,
                      total_skipped |-> r.total_skipped]
                ELSE NoCall]]
    /\ UNCHANGED <<products, price_history, product_id_seq, procs>>
    /\ UNCHANGED <<xvars, pvars, kvars, cvars, svars, bvars>>

InitServices ==
    /\ InitDb
    /\ sess = [s \in procs |-> Idle]
    /\ xpc = "idle"
    /\ xurl = 1
    /\ xnav = "ok"
    /\ xpage = <<>>
    /\ xjson = NotCalled
    /\ xresult = NotCalled
    /\ IdleScheduler /\ IdleScan
    /\ IdlePrice /\ IdleCategory

\* two workers on one database
Init == procs = {1, 2} /\ InitServices

\* one worker: the calls are serialized
InitSeq == procs = {1} /\ InitServices

Next ==
    \E s \in procs :
        \/ CreateLookup(s)
        \/ CreateFetch(s)
        \/ CreateFlush(s)
        \/ ReconcileStart(s)
        \/ ReconcileLookup(s)
        \/ ReconcileFlush(s)
        \/ UpdateStart(s)
        \/ UpdateCrawl(s)
        \/ Commit(s)
        \/ Close(s)

Spec == Init /\ [][Next]_vars

SpecSeq == InitSeq /\ [][Next]_vars

(***************************************************************************)
(* app/category_crawler.py: parse_price_from_text                          *)
(*                                                                         *)
(* A price text is the sequence of its characters.  A float that the code  *)
(* rounds to one decimal is kept as its number of tenths (25.0 is 250).    *)
(***************************************************************************)
MaxPriceLen == 4
PriceChars == {"0", "1", "2", "9", ",", " ", "w"}

\* str.strip(): whitespace is dropped at both ends
RECURSIVE Strip(_)
Strip(s) ==
    IF Len(s) = 0 THEN s
    ELSE IF s[1] = " " THEN Strip(Tail(s))
    ELSE IF s[Len(s)] = " " THEN Strip(SubSeq(s, 1, Len(s) - 1))
    ELSE s

\* line 155: re.findall(r'[\d,]+', s), the maximal runs of digits and commas
\* from left to right; cur is the run being read
RECURSIVE FindAll(_, _)
FindAll(s, cur) ==
    IF Len(s) = 0 THEN (IF Len(cur) = 0 THEN <<>> ELSE <<cur>>)
    ELSE IF IsDigit(s[1]) \/ s[1] = "," THEN FindAll(Tail(s), Append(cur, s[1]))
    ELSE IF Len(cur) = 0 THEN FindAll(Tail(s), <<>>)
    ELSE <<cur>> \o FindAll(Tail(s), <<>>)

\* num.replace(',', '')
RemoveCommas(num) == SelectSeq(num, LAMBDA c : c # ",")

\* int(x) of a string of digits; int('') is a ValueError
PyInt(digits) ==
    IF Len(digits) = 0 THEN Raise("ValueError") ELSE Return(StrToNat(digits))

\* line 161: the list comprehension; the first int() that raises ends it
RECURSIVE IntAll(_)
IntAll(price_numbers) ==
    IF Len(price_numbers) = 0 THEN Return(<<>>)
    ELSE LET head == PyInt(RemoveCommas(price_numbers[1])) IN
         IF head.kind = "raise" THEN head
         ELSE LET rest == IntAll(Tail(price_numbers)) IN
              IF rest.kind = "raise" THEN rest
              ELSE Return(<<head.value>> \o rest.value)

SeqMax(q) == CHOOSE x \in {q[i] : i \in 1..Len(q)} : \A j \in 1..Len(q) : q[j] <= x
SeqMin(q) == CHOOSE x \in {q[i] : i \in 1..Len(q)} : \A j \in 1..Len(q) : x <= q[j]

\* round(num / den * 100, 1) in tenths, for den > 0; a tie goes to the even
\* neighbour
Round1(num, den) ==
    LET q == (1000 * num) \div den
        r == (1000 * num) % den
    IN IF 2 * r < den THEN q
       ELSE IF 2 * r > den THEN q + 1
       ELSE IF q % 2 = 0 THEN q ELSE q + 1

\* lines 161-177: the list prices, or the exception of line 161, and the result
PricesResult(prices) ==
    IF prices.kind = "raise" THEN prices
    ELSE IF Len(prices.value) = 1
    THEN Return(<<prices.value[1], prices.value[1], 0>>)
    ELSE IF SeqMax(prices.value) > SeqMin(prices.value)
    THEN Return(<<SeqMax(prices.value), SeqMin(prices.value),
                  Round1(SeqMax(prices.value) - SeqMin(prices.value),
                         SeqMax(prices.value))>>)
    ELSE Return(<<SeqMin(prices.value), SeqMin(prices.value), 0>>)

\* lines 146-177
parse_price_from_text(text) ==
    IF Len(text) = 0 \/ Strip(text) = <<"0">> THEN Return(<<0, 0, 0>>)
    ELSE IF Len(FindAll(text, <<>>)) = 0 THEN Return(<<0, 0, 0>>)
    ELSE PricesResult(IntAll(FindAll(text, <<>>)))

\* the price texts the parser is run on: every short text over PriceChars and
\* one text with two comma-grouped prices
PriceTexts ==
    UNION {[1..n -> PriceChars] : n \in 0..MaxPriceLen}
    \cup {<<"1", "2", "0", ",", "0", "0", "0", "w", " ", "9", "0", ",", "0", "0", "0", "w">>}

InitPrice ==
    /\ InitDb
    /\ procs = {}
    /\ sess = [s \in {} |-> 0]
    /\ xpc = "idle"
    /\ xurl = 1
    /\ xnav = "ok"
    /\ xpage = <<>>
    /\ xjson = NotCalled
    /\ xresult = NotCalled
    /\ IdleScheduler /\ IdleScan
    /\ price_text \in PriceTexts
    /\ price_result = NotCalled
    /\ IdleCategory

\* a call parse_price_from_text(price_text)
ParsePrice ==
    /\ price_result = NotCalled
    /\ price_result' = parse_price_from_text(price_text)
    /\ UNCHANGED price_text
    /\ UNCHANGED <<dbvars, xvars, kvars, cvars, svars, bvars>>

SpecPrice == InitPrice /\ [][ParsePrice]_vars

(***************************************************************************)
(* app/category_crawler.py: get_cached_categories                          *)
(*                                                                         *)
(* The callers are coroutines of one event loop: a call runs without       *)
(* interruption up to the await of line 140 and, once the provider has     *)
(* returned, from there to its return.  Time is what time.time() reads.    *)
(***************************************************************************)
_cache_duration == 3600
NumCallers == 2
MaxClock == 7300
Callers == 1..NumCallers

\* lines 22-26 and 112: what get_musinsa_categories returns, the fallback
\* dict or the dict it discovered (names written in ASCII)
fallback_categories ==
    Obj([sangui |-> Str(<<"001">>), auteo |-> Str(<<"002">>), haui |-> Str(<<"003">>)])
ProviderResults ==
    {fallback_categories,
     Obj([top |-> Str(<<"001">>), outer |-> Str(<<"002">>), bag |-> Str(<<"004">>)])}

\* lines 135-137: the cache is missing or older than the window
IsStaleAtWindow(current_time) ==
    \/ _cached_categories = Null
    \/ _cache_timestamp = Null
    \/ current_time - _cache_timestamp.n >= _cache_duration
IsStale(current_time) ==
    \/ _cached_categories = Null
    \/ _cache_timestamp = Null
    \/ current_time - _cache_timestamp.n > _cache_duration

NoCacheCall == [pc |-> "idle"]

InitCache ==
    /\ InitDb
    /\ procs = {}
    /\ sess = [s \in {} |-> 0]
    /\ xpc = "idle"
    /\ xurl = 1
    /\ xnav = "ok"
    /\ xpage = <<>>
    /\ xjson = NotCalled
    /\ xresult = NotCalled
    /\ IdleScheduler /\ IdleScan
    /\ IdlePrice
    /\ _cached_categories = Null
    /\ _cache_timestamp = Null
    /\ clock = 0
    /\ calls = [c \in Callers |-> NoCacheCall]
    /\ crawl = [pc |-> "idle"]

\* lines 132-137 and 143: the call reads the time and tests the cache; a
\* fresh cache is returned at once, otherwise the provider is invoked and
\* the call is suspended at line 140
CacheCheck(c) ==
    /\ calls[c].pc = "idle"
    /\ calls' = [calls EXCEPT ![c] =
            IF IsStale(clock)
            THEN [pc |-> "await", current_time |-> clock]
            ELSE [pc |-> "done", result |-> _cached_categories,
                  refreshed |-> FALSE]]
    /\ UNCHANGED <<_cached_categories, _cache_timestamp, clock>>
    /\ UNCHANGED <<dbvars, xvars, pvars, cvars, svars, bvars>>

\* lines 140-143: the provider returns; the globals are assigned
ProviderReturn(c) ==
    /\ calls[c].pc = "await"
    /\ \E categories \in ProviderResults :
        /\ _cached_categories' = categories
        /\ _cache_timestamp' = Num(calls[c].current_time)
        /\ calls' = [calls EXCEPT ![c] =
                [pc |-> "done", result |-> categories, refreshed |-> TRUE]]
    /\ UNCHANGED clock
    /\ UNCHANGED <<dbvars, xvars, pvars, cvars, svars, bvars>>

\* the caller has its categories and may call again
CacheCallEnd(c) ==
    /\ calls[c].pc = "done"
    /\ calls' = [calls EXCEPT ![c] = NoCacheCall]
    /\ UNCHANGED <<_cached_categories, _cache_timestamp, clock>>
    /\ UNCHANGED <<dbvars, xvars, pvars, cvars, svars, bvars>>

\* time passes: half a window, or a window and a second
Tick ==
    /\ \E d \in {_cache_duration \div 2, _cache_duration + 1} :
        /\ clock + d <= MaxClock
        /\ clock' = clock + d
    /\ UNCHANGED <<_cached_categories, _cache_timestamp, calls>>
    /\ UNCHANGED <<dbvars, xvars, pvars, cvars, svars, bvars>>

NextCache ==
    \/ \E c \in Callers : CacheCheck(c) \/ ProviderReturn(c) \/ CacheCallEnd(c)
    \/ Tick

SpecCache == InitCache /\ [][NextCache]_vars

(***************************************************************************)
(* app/category_crawler.py: fetch_category_products                        *)
(*                                                                         *)
(* One call.  The page decides, each time it is asked, how many containers *)
(* it lists and what the element now being read holds; every page          *)
(* operation outside the per-element try may raise.  A snapshot keeps the  *)
(* fields that the URL, the prices and the category decide; the name, the  *)
(* brand, the image and the review fields are copied from the element and  *)
(* decide nothing.                                                         *)
(***************************************************************************)
max_scrolls == 10
MaxTarget == 2
MaxContainers == 2
CategoryCodes == {Str(<<"001">>), Str(<<"009">>)}

\* lines 233-249: what one container holds: whether it has the link element,
\* its href, and the attributes data-item-id, data-price,
\* data-original-price and data-discount-rate (Null: attribute missing)
Elements ==
    {[link |-> FALSE, href |-> Null, attrs |-> <<Null, Null, Null, Null>>]}
    \cup
    {[link |-> TRUE, href |-> h, attrs |-> a] :
        h \in {Null, Str(<<"/", "1">>), Str(<<"/", "2">>),
               Str(<<"https://www.musinsa.com", "/", "1">>)},
        a \in {<<Null, Null, Null, Null>>,
               <<Str(<<"1">>), Str(<<"1">>), Null, Null>>,
               <<Str(<<"1">>), Str(<<"1">>), Str(<<"2">>), Str(<<"5", "0">>)>>,
               <<Str(<<"1">>), Str(<<"1">>), Null, Str(<<"5", "0">>)>>,
               <<Str(<<"1">>), Str(<<"2">>), Str(<<"1">>), Null>>,
               <<Str(<<"1">>), Str(<<"1">>), Str(<<"2">>), Null>>,
               <<Str(<<"1">>), Str(<<"1">>), Null, Str(<<"1", "0", "0">>)>>,
               <<Str(<<"1">>), Str(<<"2">>), Null, Str(<<"3", "0">>)>>,
               <<Str(<<"1">>), Str(<<"w">>), Null, Null>>,
               <<Str(<<"w">>), Str(<<"1">>), Null, Null>>}}

\* int(attr or "0"), lines 246-249
PyIntAttr(attr) ==
    IF ~Truthy(attr) THEN Return(0)
    ELSE IF \A k \in 1..Len(attr.s) : IsDigit(attr.s[k]) THEN Return(StrToNat(attr.s))
    ELSE Raise("ValueError")

\* lines 229-325: one pass of the per-element try up to the dict product_data;
\* "continue" is one of the continue statements of lines 230-240.  Line 253
\* is int(sale_price / (1 - discount_rate / 100)): int() drops the fraction
\* of the quotient.  The quotient is taken exactly here, which is what the
\* double arithmetic of line 253 gives for the attribute values of Elements.
product_data(element, category_code, musinsa_categories) ==
    IF ~element.link \/ ~Truthy(element.href) THEN [kind |-> "continue"]
    ELSE
    LET goods_no == PyIntAttr(element.attrs[1])
        sale_price == PyIntAttr(element.attrs[2])
        original_price == PyIntAttr(element.attrs[3])
        discount_rate == PyIntAttr(element.attrs[4])
        raised == FirstRaise(<<goods_no, sale_price, original_price, discount_rate>>)
        names == {name \in DOMAIN musinsa_categories.f :
                    musinsa_categories.f[name] = category_code}
    IN
    IF raised # Null THEN raised
    ELSE IF /\ original_price.value = 0 /\ discount_rate.value > 0
            /\ sale_price.value > 0 /\ discount_rate.value = 100
    THEN Raise("ZeroDivisionError")                                  \* line 253
    ELSE Return([
        product_url |->
            IF StartsWith(element.href.s, <<"/">>)
            THEN <<"https://www.musinsa.com">> \o element.href.s
            ELSE element.href.s,
        goods_no |-> goods_no.value,
        category |-> IF names = {} THEN Null
                     ELSE Str(<<CHOOSE name \in names : TRUE>>),
        category_code |-> category_code,
        normal_price |->
            IF /\ original_price.value = 0 /\ discount_rate.value > 0
               /\ sale_price.value > 0
            THEN IF discount_rate.value < 100
                 THEN (100 * sale_price.value) \div (100 - discount_rate.value)
                 ELSE 0 - ((100 * sale_price.value) \div (discount_rate.value - 100))
            ELSE IF original_price.value = 0 THEN sale_price.value
            ELSE original_price.value,
        sale_price |-> sale_price.value,
        discount_rate |-> discount_rate.value,
        is_sold_out |-> FALSE])

\* line 221: the test of the while loop
LoopWithoutBudget(n_products, target_count, scroll_count) ==
    n_products < target_count
LoopContinues(n_products, target_count, scroll_count) ==
    n_products < target_count /\ scroll_count < max_scrolls

\* lines 206-211: after wait_for_selector, go on to the loop or return
AfterSelectorIgnored(found) == "while"
AfterSelector(found) == IF found THEN "while" ELSE "return"

\* line 328: the duplicate check
IsNewUrlAlways(product_url, processed_urls) == TRUE
IsNewUrl(product_url, processed_urls) == product_url \notin processed_urls

\* lines 348-350: the early exit of the for loop
BreakNever(n_products, target_count) == FALSE
BreakOnTarget(n_products, target_count) == n_products >= target_count

InitCategory ==
    /\ InitDb
    /\ procs = {}
    /\ sess = [s \in {} |-> 0]
    /\ xpc = "idle"
    /\ xurl = 1
    /\ xnav = "ok"
    /\ xpage = <<>>
    /\ xjson = NotCalled
    /\ xresult = NotCalled
    /\ IdleScheduler /\ IdleScan
    /\ IdlePrice /\ IdleCategory

\* lines 180-203: the call starts, get_cached_categories gives the category
\* names (a lone call: nothing runs between its test and its assignment),
\* the page is opened and page.goto returns or raises
CategoryStart ==
    /\ crawl.pc = "idle"
    /\ \E category_code \in CategoryCodes, target_count \in 0..MaxTarget,
          categories \in ProviderResults, nav \in {"ok", "timeout"} :
        /\ _cached_categories' = IF IsStale(clock) THEN categories
                                 ELSE _cached_categories
        /\ _cache_timestamp' = IF IsStale(clock) THEN Num(clock)
                               ELSE _cache_timestamp
        /\ crawl' = [pc |-> IF nav = "ok" THEN "wait" ELSE "return",
                     category_code |-> category_code,
                     target_count |-> target_count,
                     musinsa_categories |-> IF IsStale(clock) THEN categories
                                            ELSE _cached_categories,
                     products |-> <<>>,
                     processed_urls |-> {},
                     scroll_count |-> 0,
                     n |-> 0, i |-> 0,
                     rounds |-> 0,          \* query_selector_all calls of line 223
                     found |-> FALSE,       \* the container selector appeared
                     raised |-> nav # "ok", \* the except of line 370 was taken
                     relisted |-> FALSE,    \* line 328 met a URL already seen
                     last |-> Null,         \* the URL the last iteration read
                     closed |-> FALSE]      \* browser.close() of line 374 ran
    /\ UNCHANGED <<clock, calls>>
    /\ UNCHANGED <<dbvars, xvars, pvars, svars, bvars>>

\* lines 205-217: wait_for_selector returns or times out
WaitForSelector ==
    /\ crawl.pc = "wait"
    /\ \E found \in BOOLEAN :
        crawl' = [crawl EXCEPT !.found = found, !.pc = AfterSelector(found)]
    /\ UNCHANGED <<dbvars, xvars, pvars, kvars, svars, bvars>>

\* lines 221-224: the test of the while loop and, when it passes, the
\* enumeration of the containers (which may raise)
RoundStart ==
    /\ crawl.pc = "while"
    /\ crawl.rounds <= max_scrolls
    /\ IF ~LoopContinues(Len(crawl.products), crawl.target_count, crawl.scroll_count)
       THEN crawl' = [crawl EXCEPT !.pc = "return"]
       ELSE \/ crawl' = [crawl EXCEPT !.rounds = @ + 1, !.raised = TRUE,
                                      !.pc = "return"]
            \/ \E n \in 0..MaxContainers :
                crawl' = [crawl EXCEPT !.rounds = @ + 1, !.n = n, !.i = 1,
                                       !.pc = IF n = 0 THEN "after" ELSE "for"]
    /\ UNCHANGED <<dbvars, xvars, pvars, kvars, svars, bvars>>

\* lines 227-354: one iteration of the for loop, on what container i holds now
ProcessContainer ==
    /\ crawl.pc = "for"
    /\ \E element \in Elements :
       \E data \in {product_data(element, crawl.category_code,
                                 crawl.musinsa_categories)} :
        crawl' =
            IF data.kind = "return"
               /\ IsNewUrl(data.value.product_url, crawl.processed_urls)
               /\ BreakOnTarget(Len(crawl.products) + 1, crawl.target_count)
            THEN [crawl EXCEPT !.products = Append(@, data.value),
                               !.processed_urls = @ \cup {data.value.product_url},
                               !.last = Str(data.value.product_url),
                               !.pc = "after"]
            ELSE [crawl EXCEPT
                    !.products =
                        IF data.kind = "return"
                           /\ IsNewUrl(data.value.product_url, crawl.processed_urls)
                        THEN Append(@, data.value) ELSE @,
                    !.processed_urls =
                        IF data.kind = "return"
                        THEN @ \cup {data.value.product_url} ELSE @,
                    !.relisted =
                        IF data.kind = "return"
                           /\ ~IsNewUrl(data.value.product_url, crawl.processed_urls)
                        THEN TRUE ELSE @,
                    !.last = IF data.kind = "return"
                             THEN Str(data.value.product_url) ELSE Null,
                    !.i = IF crawl.i = crawl.n THEN @ ELSE @ + 1,
                    !.pc = IF crawl.i = crawl.n THEN "after" ELSE "for"]
    /\ UNCHANGED <<dbvars, xvars, pvars, kvars, svars, bvars>>

\* lines 356-366: leave the loop when the target is reached, otherwise count
\* the scroll and scroll (page.evaluate may raise)
RoundEnd ==
    /\ crawl.pc = "after"
    /\ IF Len(crawl.products) >= crawl.target_count
       THEN crawl' = [crawl EXCEPT !.pc = "return"]
       ELSE \E scrolled \in BOOLEAN :
            crawl' = [crawl EXCEPT !.scroll_count = @ + 1,
                                   !.raised = ~scrolled,
                                   !.pc = IF scrolled THEN "while" ELSE "return"]
    /\ UNCHANGED <<dbvars, xvars, pvars, kvars, svars, bvars>>

\* lines 368-376: the finally clause closes the browser, products is returned
CategoryReturn ==
    /\ crawl.pc = "return"
    /\ crawl' = [crawl EXCEPT !.closed = TRUE, !.pc = "done"]
    /\ UNCHANGED <<dbvars, xvars, pvars, kvars, svars, bvars>>

NextCategory ==
    \/ CategoryStart
    \/ WaitForSelector
    \/ RoundStart
    \/ ProcessContainer
    \/ RoundEnd
    \/ CategoryReturn

SpecCategory == InitCategory /\ [][NextCategory]_vars

\* the event loop keeps running the coroutine
SpecCategoryLive == SpecCategory /\ WF_vars(NextCategory)

(***************************************************************************)
(* app/services.py manual_crawl_product, app/main.py delete_product and    *)
(* app/scheduler.py cleanup_old_price_history, on a database that already  *)
(* holds rows.                                                             *)
(*                                                                         *)
(* The tables outlive the process: Base.metadata.create_all (main.py 35)   *)
(* creates only the tables that are missing, and every operation works on  *)
(* the rows it finds.  One worker issues the calls, one after the other.   *)
(* The rows of price_history are numbered in the order of their            *)
(* crawled_at.  A row whose product_id is NULL has product_id NullId.      *)
(***************************************************************************)
NullId == 0

\* ---- manual_crawl_product, services.py lines 247-287 ----

\* lines 251-256: the product is looked up by its id
ManualLookup(s) ==
    /\ sess[s].pc = "idle"
    /\ \E product_id \in 1..MaxId :
        LET r == [Idle EXCEPT !.op = "manual", !.last = sess[s].last]
            product == {p \in Visible(s) : p.id = product_id}
        IN
        sess' = [sess EXCEPT ![s] =
                    IF product = {} THEN Raised(r)
                    ELSE [r EXCEPT !.pc = "fetch",
                                   !.active_products = RowsById(product)]]
    /\ UNCHANGED <<products, price_history, product_id_seq, procs>>
    /\ UNCHANGED <<xvars, pvars, kvars, cvars, svars, bvars>>

\* lines 258-274, 286-287: the crawl, the PriceHistory constructor and
\* db.add; every exception leaves the function as a ValueError
ManualFetch(s) ==
    LET r == sess[s]
        product == r.active_products[1]
        made == DeclarativeConstructor(PriceHistoryAttributes, PriceHistoryKwargs)
    IN
    /\ r.op = "manual" /\ r.pc = "fetch"
    /\ \E nav \in {"ok", "timeout"}, page \in ServicePages :
       \E crawled_data \in {fetch_product_data(product.product_url, nav, page)} :
        sess' = [sess EXCEPT ![s] =
            IF crawled_data.kind = "raise" THEN Raised(r)
            ELSE IF ~Truthy(crawled_data.value) THEN Raised(r)       \* line 263
            ELSE IF made # "ok" THEN Raised(r)
            ELSE [r EXCEPT !.new_history = @ \cup {product.id},
                           !.pc = "commit"]]
    /\ UNCHANGED <<products, price_history, product_id_seq, procs>>
    /\ UNCHANGED <<xvars, pvars, kvars, cvars, svars, bvars>>

\* main.py lines 125-140: DELETE /products/{product_id}.  The relationship
\* Product.price_history (models.py 45) has no delete cascade and
\* PriceHistory.product_id (models.py 55) is nullable: the flush of
\* db.delete(product) sets product_id of the product's history rows to NULL
\* and then deletes the product row; db.commit() makes both durable.
DeleteProduct(s) ==
    /\ sess[s].pc = "idle"
    /\ \E product_id \in 1..MaxId :
        LET r == [Idle EXCEPT !.op = "delete", !.last = sess[s].last]
            product == {p \in Visible(s) : p.id = product_id}
        IN
        IF product = {}
        THEN /\ sess' = [sess EXCEPT ![s] = Raised(r)]              \* 404
             /\ UNCHANGED <<products, price_history>>
        ELSE /\ products' = products \ product
             /\ price_history' =
                    {IF h.product_id = product_id
                     THEN [h EXCEPT !.product_id = NullId] ELSE h :
                        h \in price_history}
             /\ sess' = [sess EXCEPT ![s] =
                    [r EXCEPT !.pc = "done", !.outcome = "returned"]]
    /\ UNCHANGED <<product_id_seq, procs>>
    /\ UNCHANGED <<xvars, pvars, kvars, cvars, svars, bvars>>

\* scheduler.py lines 103-122: the rows with crawled_at before
\* thirty_days_ago are deleted and the deletion is committed; the rows up
\* to number cutoff are the ones that old when the job runs
cleanup_old_price_history(s) ==
    /\ sess[s].pc = "idle"
    /\ \E cutoff \in 0..MaxHistoryId :
        price_history' = {h \in price_history : h.id > cutoff}
    /\ sess' = [sess EXCEPT ![s] =
            [Idle EXCEPT !.op = "cleanup", !.pc = "done",
                         !.outcome = "returned", !.last = sess[s].last]]
    /\ UNCHANGED <<products, product_id_seq, procs>>
    /\ UNCHANGED <<xvars, pvars, kvars, cvars, svars, bvars>>

\* a database that holds one product and up to two of its history points
InitStore ==
    /\ procs = {1}
    /\ products = {ProductRow(1, 1, 0)}
    /\ price_history \in
            {{}, {PriceHistoryRow(1, 1)},
             {PriceHistoryRow(1, 1), PriceHistoryRow(2, 1)}}
    /\ product_id_seq = 1
    /\ sess = [s \in procs |-> Idle]
    /\ xpc = "idle"
    /\ xurl = 1
    /\ xnav = "ok"
    /\ xpage = <<>>
    /\ xjson = NotCalled
    /\ xresult = NotCalled
    /\ IdleScheduler /\ IdleScan
    /\ IdlePrice /\ IdleCategory

NextStore ==
    \/ Next
    \/ \E s \in procs :
        \/ ManualLookup(s)
        \/ ManualFetch(s)
        \/ DeleteProduct(s)
        \/ cleanup_old_price_history(s)

SpecStore == InitStore /\ [][NextStore]_vars

(***************************************************************************)
(* app/scheduler.py: start_scheduler and the jobs it adds.                 *)
(*                                                                         *)
(* scheduler is an AsyncIOScheduler with the default job settings          *)
(* (max_instances 1, coalesce).  When a job is due the scheduler submits   *)
(* it: the job function is a coroutine, which the executor starts as a     *)
(* task of the event loop, unless max_instances runs of that same job are  *)
(* still in progress.  A run is in progress from its submission until its  *)
(* coroutine ends; the tasks of the loop interleave at their awaits.  Time *)
(* is counted in whole hours since start_scheduler.                        *)
(***************************************************************************)
MaxHours == 5
max_instances == 1

\* lines 139-163: the ids of the jobs and the hours between two runs
\* (IntervalTrigger(hours=1), IntervalTrigger(hours=4), CronTrigger(hour=3))
JobHours ==
    [crawl_products_hourly |-> 1,
     discover_new_products |-> 4,
     cleanup_old_data_daily |-> 24]

\* lines 125-171: start_scheduler.  An interval trigger fires first one
\* interval after it was made; the cron trigger fires at the next 03:00,
\* which is 1 to 24 hours away.
start_scheduler ==
    /\ ~scheduler.running
    /\ \E until_three \in 1..24 :
        scheduler' =
            [running |-> TRUE,
             now |-> 0,
             next_run_time |->
                [id \in DOMAIN JobHours |->
                    IF id = "cleanup_old_data_daily" THEN until_three
                    ELSE JobHours[id]],
             instances |-> [id \in DOMAIN JobHours |-> 0]]
    /\ UNCHANGED <<dbvars, xvars, pvars, kvars, cvars, bvars>>

\* the scheduler wakes up for a job that is due: it starts a run of the job
\* function (lines 26, 85, 103) unless max_instances runs of that job are
\* in progress, and sets the job's next run time
SubmitJob(id) ==
    /\ scheduler.running
    /\ scheduler.next_run_time[id] <= scheduler.now
    /\ scheduler' =
        [scheduler EXCEPT
            !.instances[id] = IF @ >= max_instances THEN @ ELSE @ + 1,
            !.next_run_time[id] = @ + JobHours[id]]
    /\ UNCHANGED <<dbvars, xvars, pvars, kvars, cvars, bvars>>

\* lines 81-82, 99-100, 121-122: the coroutine of a run reaches its end
JobDone(id) ==
    /\ scheduler.running
    /\ scheduler.instances[id] > 0
    /\ scheduler' = [scheduler EXCEPT !.instances[id] = @ - 1]
    /\ UNCHANGED <<dbvars, xvars, pvars, kvars, cvars, bvars>>

\* an hour passes; the scheduler has submitted every job that was due
HourPasses ==
    /\ scheduler.running
    /\ scheduler.now < MaxHours
    /\ \A id \in DOMAIN JobHours : scheduler.next_run_time[id] > scheduler.now
    /\ scheduler' = [scheduler EXCEPT !.now = @ + 1]
    /\ UNCHANGED <<dbvars, xvars, pvars, kvars, cvars, bvars>>

NextScheduler ==
    \/ start_scheduler
    \/ \E id \in DOMAIN JobHours : SubmitJob(id) \/ JobDone(id)
    \/ HourPasses

\* nothing has been called yet
SpecScheduler == InitCategory /\ [][NextScheduler]_vars

(***************************************************************************)
(* app/crawler.py: the brace scan of extract_data_from_script_tag, lines   *)
(* 31-51, character by character.                                          *)
(*                                                                         *)
(* The inner text of a script is the sequence of its characters; the       *)
(* assignment 'window.__MSS__.product.state = ' is one element of it.      *)
(***************************************************************************)
MaxNesting == 2
start_pattern == "window.__MSS__.product.state = "

\* lines 41-48: the for loop from position i on; json_end is the position
\* of the brace that closed the count, or the one before json_start when no
\* brace did (Python: json_end = json_start, an empty slice)
RECURSIVE BraceLoop(_, _, _, _)
BraceLoop(text, json_start, i, brace_count) ==
    IF i > Len(text)
    THEN [brace_count |-> brace_count, json_end |-> json_start - 1]
    ELSE IF text[i] = "{"
    THEN BraceLoop(text, json_start, i + 1, brace_count + 1)
    ELSE IF text[i] = "}"
    THEN IF brace_count - 1 = 0
         THEN [brace_count |-> 0, json_end |-> i]
         ELSE BraceLoop(text, json_start, i + 1, brace_count - 1)
    ELSE BraceLoop(text, json_start, i + 1, brace_count)

\* lines 31-51: the text handed to json.loads, or "break" when the pattern
\* is not found or the count does not end at 0 (line 154)
IsolatedText(text) ==
    LET found == {i \in 1..Len(text) : text[i] = start_pattern} IN
    IF found = {} THEN [kind |-> "break"]
    ELSE LET json_start == 1 + CHOOSE i \in found : \A j \in found : i <= j
             scan == BraceLoop(text, json_start, json_start, 0)
         IN
         IF scan.brace_count = 0
         THEN Return(SubSeq(text, json_start, scan.json_end))
         ELSE [kind |-> "break"]

\* JSON strings, one of them holding an opening and one a closing brace
JsonStrings ==
    {<<"\"", "\"">>, <<"\"", "a", "\"">>, <<"\"", "{", "\"">>, <<"\"", "}", "\"">>}

\* the well-formed JSON objects with at most one member and at most depth
\* objects nested in them
RECURSIVE JsonObjects(_)
JsonObjects(depth) ==
    {<<"{", "}">>}
    \cup {<<"{">> \o key \o <<":">> \o value \o <<"}">> :
            key \in JsonStrings,
            value \in JsonStrings \cup
                      (IF depth = 0 THEN {} ELSE JsonObjects(depth - 1))}

\* a script whose state assignment is followed by a JSON object
InitScan ==
    /\ InitDb
    /\ procs = {}
    /\ sess = [s \in {} |-> 0]
    /\ xpc = "idle"
    /\ xurl = 1
    /\ xnav = "ok"
    /\ xpage = <<>>
    /\ xjson = NotCalled
    /\ xresult = NotCalled
    /\ IdlePrice /\ IdleCategory /\ IdleScheduler
    /\ state_object \in JsonObjects(MaxNesting)
    /\ \E before \in {<<>>, <<"{">>}, after \in {<<>>, <<";">>, <<";", "}">>} :
        content = before \o <<start_pattern>> \o state_object \o after
    /\ json_text = NotCalled

\* lines 31-51 on the script
BraceScan ==
    /\ json_text = NotCalled
    /\ json_text' = IsolatedText(content)
    /\ UNCHANGED <<content, state_object>>
    /\ UNCHANGED <<dbvars, xvars, pvars, kvars, cvars, svars>>

SpecScan == InitScan /\ [][BraceScan]_vars

(***************************************************************************)
(* Claims about the reconciliation and refresh engines.                    *)
(***************************************************************************)
Distinct(q) == \A i, j \in 1..Len(q) : i # j => q[i] # q[j]

HistoryOf(product_id) == {h \in price_history : h.product_id = product_id}

\* the snapshots a reconciliation has counted as skipped so far
Skipped(r) == r.total_skipped + r.skipped_count

\* C1: from an empty database, reconciling a batch of N snapshots with
\* distinct URLs reports saved = N and skipped = 0; reconciling the same batch
\* again reports saved = 0 and skipped = N, and the database then holds
\* exactly N Product rows.
C1_IdempotentBatch ==
    \A s \in procs :
        LET r == sess[s]
            N == Len(BatchUrls(r.results))
        IN
        (r.op = "reconcile" /\ r.pc = "done" /\ Distinct(BatchUrls(r.results))) =>
            /\ r.empty_before =>
                    /\ r.outcome = "returned"
                    /\ r.total_saved = N
                    /\ r.total_skipped = 0
            /\ (/\ r.last.op = "reconcile"
                /\ r.last.empty_before
                /\ r.last.results = r.results) =>
                    /\ r.outcome = "returned"
                    /\ r.total_saved = 0
                    /\ r.total_skipped = N
                    /\ Cardinality(products) = N

\* C2: whatever the calls and their interleaving, the table never holds two
\* Product rows with the same product_url.
C2_UniqueProductUrl ==
    \A p, q \in products : p.product_url = q.product_url => p = q

\* a flush met the URL of a committed row: two calls handled the same URL
C2_Witness ==
    \E s \in procs :
        /\ ~sess[s].active
        /\ sess[s].raised > 0
        /\ products # {}

\* C3: when crawl_and_save_multiple_categories has committed, every Product
\* row the call added has exactly one PriceHistory row.
C3_NewProductHasOneHistoryPoint ==
    \A s \in procs :
        (sess[s].op = "reconcile" /\ sess[s].pc = "done"
            /\ sess[s].outcome = "returned") =>
            \A id \in sess[s].added : Cardinality(HistoryOf(id)) = 1

\* C4: when the persistence of exactly one snapshot of a batch raises, the
\* call still returns its summary, the failing snapshot is neither saved nor
\* skipped, saved = batch size - 1 - skipped, and each saved snapshot is
\* committed with its history point.
C4_OneFailureOthersCommit ==
    \A s \in procs :
        LET r == sess[s]
            N == Len(BatchUrls(r.results))
        IN
        (r.op = "reconcile" /\ r.pc = "done" /\ r.raised = 1) =>
            /\ r.outcome = "returned"
            /\ r.total_saved = N - 1 - r.total_skipped
            /\ Cardinality({id \in r.added : HistoryOf(id) # {}}) = r.total_saved

\* C5: a snapshot whose URL is found by the lookup is counted as skipped and
\* changes nothing: no row of products or price_history changes, and the
\* session gets no new or changed row to write.
C5_SkipChangesNothing ==
    [][\A s \in procs :
        (/\ sess[s].op = "reconcile"
         /\ sess[s].pc = "lookup"
         /\ sess[s].active
         /\ ExistingProduct(s, sess[s].product_url) # {}
         /\ sess'[s] # sess[s])
        => /\ Skipped(sess'[s]) = Skipped(sess[s]) + 1
           /\ sess'[s].raised = sess[s].raised
           /\ sess'[s].new_products = sess[s].new_products
           /\ sess'[s].new_history = sess[s].new_history
           /\ products' = products
           /\ price_history' = price_history]_vars

\* a reconciliation has skipped a snapshot
C5_Witness ==
    \E s \in procs : sess[s].op = "reconcile" /\ Skipped(sess[s]) > 0

\* C6: during reconciliation a snapshot whose URL has a committed Product row
\* is handled as a skip and never as an error, also when that row was
\* committed by another worker between the lookup and the flush; the session
\* stays usable for the remaining snapshots.
C6_DuplicateIsSkip ==
    [][\A s \in procs :
        (/\ sess[s].op = "reconcile"
         /\ sess[s].pc \in {"lookup", "flush"}
         /\ sess[s].active
         /\ UniqueIndexHit(products, sess[s].product_url)
         /\ sess'[s] # sess[s])
        => /\ Skipped(sess'[s]) = Skipped(sess[s]) + 1
           /\ sess'[s].raised = sess[s].raised
           /\ sess'[s].active]_vars

\* C7: update_product_prices over K active products with exactly one failed
\* extraction returns success_count = K-1 and error_count = 1 and appends one
\* PriceHistory row to each of the K-1 other products.
C7_RefreshCounts ==
    \A s \in procs :
        LET r == sess[s]
            K == Len(r.active_products)
        IN
        (r.op = "update" /\ r.pc = "done" /\ r.fetch_failed = 1) =>
            /\ r.outcome = "returned"
            /\ r.success_count = K - 1
            /\ r.error_count = 1
            /\ Cardinality(r.appended) = K - 1

(***************************************************************************)
(* Claims about the detail extractor, checked under SpecExtract.           *)
(***************************************************************************)
\* the value of an optional leaf of the state object: Null when the
\* sub-object or the key is absent or null
Leaf(d, sub, key) ==
    LET o == Get(d, sub, Null) IN
    IF o.t = "obj" THEN Get(o, key, Null) ELSE Null

NameOf(d) == Get(d, "goodsNm", Null)
BrandNameOf(d) == Leaf(d, "brandInfo", "brandName")
ImageOf(d) == Get(d, "thumbnailImageUrl", Null)

NonEmptyStr(v) == v.t = "str" /\ Len(v.s) > 0

\* the state object the scan reaches: script i parses, and no script before it
\* carries the marker
IsEmbeddedState(page, i) ==
    /\ i \in 1..Len(page)
    /\ page[i].marker /\ page[i].pattern /\ page[i].balanced
    /\ page[i].parsed.t = "obj"
    /\ \A j \in 1..(i - 1) : ~page[j].marker

\* every optional value is absent, null, or populated with a value of its type
OptionalWellFormed(d) ==
    /\ Leaf(d, "goodsPrice", "normalPrice").t \in {"null", "num"}
    /\ Leaf(d, "goodsPrice", "salePrice").t \in {"null", "num"}
    /\ Leaf(d, "goodsPrice", "discountRate").t \in {"null", "num"}
    /\ Leaf(d, "goodsReview", "totalCount").t \in {"null", "num"}
    /\ Leaf(d, "goodsReview", "satisfactionScore").t \in {"null", "num"}
    /\ Leaf(d, "category", "categoryDepth1Name").t \in {"null", "str"}
    /\ Leaf(d, "category", "categoryDepth2Name").t \in {"null", "str"}
    /\ Leaf(d, "category", "categoryDepth3Name").t \in {"null", "str"}
    /\ LET g == Get(d, "genders", Null) IN
       \/ g.t = "null"
       \/ g.t = "list" /\ \A k \in 1..Len(g.items) : g.items[k].t = "str"

\* a missing or null optional value shows in the snapshot as its default
DefaultsApplied(d, snap) ==
    /\ Leaf(d, "goodsPrice", "normalPrice").t = "null" => snap.normal_price = Num(0)
    /\ Leaf(d, "goodsPrice", "salePrice").t = "null" => snap.sale_price = Num(0)
    /\ Leaf(d, "goodsPrice", "discountRate").t = "null" => snap.discount_rate = Num(0)
    /\ Leaf(d, "goodsReview", "totalCount").t = "null" => snap.review_count = Num(0)
    /\ Leaf(d, "goodsReview", "satisfactionScore").t = "null"
          => snap.review_score = Num(0)
    /\ Leaf(d, "category", "categoryDepth1Name").t = "null"
          => snap.category_depth1 = Str(<<>>)
    /\ Leaf(d, "category", "categoryDepth2Name").t = "null"
          => snap.category_depth2 = Str(<<>>)
    /\ Leaf(d, "category", "categoryDepth3Name").t = "null"
          => snap.category_depth3 = Str(<<>>)

\* C8: whenever the embedded state parses and has a non-empty product name,
\* brand name and image URL, extract_data_from_script_tag returns a snapshot,
\* whatever the optional fields are (absent, null or populated), and each
\* missing or null optional value appears in it as its default.
C8_OptionalFieldsDegrade ==
    \A i \in 1..Len(xpage) :
        (/\ xjson # NotCalled
         /\ IsEmbeddedState(xpage, i)
         /\ NonEmptyStr(NameOf(xpage[i].parsed))
         /\ NonEmptyStr(BrandNameOf(xpage[i].parsed))
         /\ NonEmptyStr(ImageOf(xpage[i].parsed))
         /\ OptionalWellFormed(xpage[i].parsed))
        => /\ xjson.kind = "return"
           /\ xjson.value.t = "obj"
           /\ DefaultsApplied(xpage[i].parsed, xjson.value.f)

\* C9: extract_data_from_script_tag returns None whenever the embedded state
\* lacks the product name, the brand name or the image URL, and a snapshot it
\* returns never has one of the three missing or empty.
C9_NoPartialSnapshot ==
    xjson # NotCalled =>
        /\ xjson.kind = "return"
        /\ (\A i \in 1..Len(xpage) :
                xpage[i].parsed.t = "obj" =>
                    \/ ~Truthy(NameOf(xpage[i].parsed))
                    \/ ~Truthy(BrandNameOf(xpage[i].parsed))
                    \/ ~Truthy(ImageOf(xpage[i].parsed)))
           => xjson.value = Null
        /\ xjson.value # Null =>
                /\ Truthy(xjson.value.f.product_name)
                /\ Truthy(xjson.value.f.brand)
                /\ Truthy(xjson.value.f.image_url)

\* the extractor was run on a state that has a name and an image but no brand
C9_Witness ==
    /\ xjson = Return(Null)
    /\ \E i \in 1..Len(xpage) :
        /\ IsEmbeddedState(xpage, i)
        /\ Truthy(NameOf(xpage[i].parsed))
        /\ ~Truthy(BrandNameOf(xpage[i].parsed))
        /\ Truthy(ImageOf(xpage[i].parsed))

\* the page or the navigation makes the extraction fail
ExtractionFails(nav, page) ==
    \/ nav = "timeout"
    \/ ScanScripts(page, 1).kind = "raise"
    \/ ScanScripts(page, 1) = Return(Null)

\* C10: once a page session exists, every failure of the detail extractor (no
\* qualifying script, JSON decode error, missing required field, a type error
\* on a field value, navigation timeout) reaches the caller as None; neither
\* extract_data_from_script_tag nor fetch_product_data lets an exception out.
C10_FailureIsNone ==
    /\ xjson # NotCalled => xjson.kind = "return"
    /\ xpc = "done" =>
        /\ xresult.kind = "return"
        /\ ExtractionFails(xnav, xpage) => xresult.value = Null

\* a field value raised a TypeError/ValueError/AttributeError inside the
\* extractor and the caller received None
C10_Witness ==
    /\ xpc = "done"
    /\ xnav = "ok"
    /\ ScanScripts(xpage, 1).kind = "raise"
    /\ xresult = Return(Null)

(***************************************************************************)
(* Claims about parse_price_from_text, checked under SpecPrice.            *)
(***************************************************************************)
HasDigit(text) == \E i \in 1..Len(text) : IsDigit(text[i])

\* C15: parse_price_from_text returns (0, 0, 0.0), and does not raise, for
\* every price text without a digit: the empty text, text without digits,
\* and text whose only price-like characters are commas.
C15_NoTokenIsZero ==
    (price_result # NotCalled /\ ~HasDigit(price_text)) =>
        price_result = Return(<<0, 0, 0>>)

\* the numeric tokens of a text: its runs of digits and commas that hold a
\* digit, read as integers, from left to right
NumericTokens(text) ==
    LET groups == SelectSeq(FindAll(text, <<>>), HasDigit) IN
    [i \in 1..Len(groups) |-> StrToNat(RemoveCommas(groups[i]))]

\* the reference of the price parser for one or more tokens
ReferencePrice(tokens) ==
    IF Len(tokens) = 1 THEN <<tokens[1], tokens[1], 0>>
    ELSE IF SeqMax(tokens) > SeqMin(tokens)
    THEN <<SeqMax(tokens), SeqMin(tokens),
           Round1(SeqMax(tokens) - SeqMin(tokens), SeqMax(tokens))>>
    ELSE <<SeqMax(tokens), SeqMax(tokens), 0>>

\* C16: for every price text with at least one numeric token,
\* parse_price_from_text returns the reference: (T, T, 0.0) for one token T;
\* for two or more, normal = max, sale = min and the discount is
\* (normal - sale) / normal * 100 rounded to one decimal, 0.0 when all
\* tokens are equal.
C16_ParserEqualsReference ==
    (price_result # NotCalled /\ Len(NumericTokens(price_text)) >= 1) =>
        price_result = Return(ReferencePrice(NumericTokens(price_text)))

(***************************************************************************)
(* Claims about get_cached_categories, checked under SpecCache.            *)
(***************************************************************************)
\* C19: when the cache is empty or its window has expired and several
\* get_cached_categories calls overlap at the await of the provider, the
\* provider is invoked once for that expiry: no second call invokes it while
\* an invocation is in flight.
C19_OneRefreshPerExpiry ==
    \A c, d \in Callers :
        (calls[c].pc = "await" /\ calls[d].pc = "await") => c = d

\* C20: if the cache holds a value fetched at t, a get_cached_categories call
\* made at now with now - t <= 3600 returns that value without invoking the
\* provider and without changing the cache.
C20_FreshCacheIsReturned ==
    [][\A c \in Callers :
        (/\ calls[c].pc = "idle"
         /\ calls'[c].pc # "idle"
         /\ _cached_categories # Null
         /\ _cache_timestamp # Null
         /\ clock - _cache_timestamp.n <= 3600)
        => /\ calls'[c] = [pc |-> "done", result |-> _cached_categories,
                           refreshed |-> FALSE]
           /\ _cached_categories' = _cached_categories
           /\ _cache_timestamp' = _cache_timestamp]_vars

\* a call made exactly one window after the fetch was served from the cache
C20_Witness ==
    /\ _cache_timestamp # Null
    /\ clock - _cache_timestamp.n = 3600
    /\ \E c \in Callers :
        calls[c] = [pc |-> "done", result |-> _cached_categories,
                    refreshed |-> FALSE]

(***************************************************************************)
(* Claims about the category listing extractor, checked under SpecCategory *)
(* (C11 under SpecCategoryLive).                                           *)
(***************************************************************************)
ProductUrls(snapshots) == {snapshots[k].product_url : k \in 1..Len(snapshots)}

\* C11: fetch_category_products terminates whatever the page does, after at
\* most 10 enumeration rounds, also when no round yields a new element and
\* the target is never reached; the while loop ends only with the target
\* count reached or the round budget used up (a page operation that raises
\* ends the call through the except of line 370).
C11_TerminatesWithinBudget ==
    /\ [](crawl.pc # "idle" =>
            /\ crawl.rounds <= 10
            /\ (crawl.pc \in {"return", "done"} /\ crawl.found /\ ~crawl.raised) =>
                    \/ Len(crawl.products) >= crawl.target_count
                    \/ crawl.scroll_count = 10)
    /\ <>(crawl.pc = "done")

\* ten rounds listed nothing new and the call ended with the budget used up
C11_Witness ==
    /\ crawl.pc = "done"
    /\ crawl.rounds = 10
    /\ crawl.products = <<>>
    /\ crawl.target_count > 0
    /\ ~crawl.raised

\* C12: fetch_category_products never returns more than target_count
\* snapshots, and once the count has reached target_count it processes no
\* further element, starts no further round and triggers no further scroll.
C12_StopsAtTarget ==
    /\ [](crawl.pc = "done" => Len(crawl.products) <= crawl.target_count)
    /\ [][(crawl.pc # "idle" /\ Len(crawl.products) >= crawl.target_count) =>
            /\ crawl.pc # "for"
            /\ crawl'.pc # "for"
            /\ crawl'.products = crawl.products
            /\ crawl'.rounds = crawl.rounds
            /\ crawl'.scroll_count = crawl.scroll_count]_vars

\* the target was reached with elements of the round still unread
C12_Witness ==
    /\ crawl.pc = "after"
    /\ crawl.i < crawl.n
    /\ crawl.target_count > 0
    /\ Len(crawl.products) = crawl.target_count

\* C13: the sequence fetch_category_products builds never holds two
\* snapshots with the same product URL, however often the page lists an
\* element again, and it is in order of first appearance: an element read
\* with a URL not yet in the sequence is appended at its end, any other
\* element leaves the sequence as it is.
C13_DeduplicatedInOrder ==
    /\ [](crawl.pc # "idle" =>
            \A j, k \in 1..Len(crawl.products) :
                crawl.products[j].product_url = crawl.products[k].product_url
                    => j = k)
    /\ [][crawl.pc = "for" =>
            IF crawl'.last # Null /\ crawl'.last.s \notin ProductUrls(crawl.products)
            THEN /\ Len(crawl'.products) = Len(crawl.products) + 1
                 /\ SubSeq(crawl'.products, 1, Len(crawl.products)) = crawl.products
                 /\ crawl'.products[Len(crawl'.products)].product_url = crawl'.last.s
            ELSE crawl'.products = crawl.products]_vars

\* a later round listed an element again and two snapshots were collected
C13_Witness ==
    /\ crawl.pc # "idle"
    /\ crawl.relisted
    /\ crawl.rounds >= 2
    /\ Len(crawl.products) = 2

\* C14: when the container selector does not appear within its timeout,
\* fetch_category_products returns an empty sequence without raising, with
\* no enumeration round and no scroll, and with its browser closed.
C14_ContainerNotFound ==
    (crawl.pc \notin {"idle", "wait"} /\ ~crawl.found /\ ~crawl.raised) =>
        /\ crawl.pc \in {"return", "done"}
        /\ crawl.products = <<>>
        /\ crawl.rounds = 0
        /\ crawl.scroll_count = 0
        /\ crawl.pc = "done" => crawl.closed

\* the selector timed out and the call returned
C14_Witness ==
    /\ crawl.pc = "done"
    /\ ~crawl.found
    /\ ~crawl.raised
    /\ crawl.closed

\* C17: every snapshot of the category listing extractor or of the detail
\* extractor whose normal_price and sale_price are both nonzero has
\* sale_price <= normal_price, whatever prices the page supplies.
C17_SaleNotAboveNormal ==
    /\ crawl.pc # "idle" =>
        \A k \in 1..Len(crawl.products) :
            (crawl.products[k].normal_price # 0 /\ crawl.products[k].sale_price # 0)
                => crawl.products[k].sale_price <= crawl.products[k].normal_price
    /\ (/\ xjson.kind = "return"
        /\ xjson.value # Null
        /\ xjson.value.f.normal_price.n # 0
        /\ xjson.value.f.sale_price.n # 0)
        => xjson.value.f.sale_price.n <= xjson.value.f.normal_price.n

\* C18: in every snapshot with both prices present the discount_rate is the
\* one derived from the prices, (normal - sale) / normal * 100 rounded to
\* one decimal and 0 when normal <= sale, whatever discount the page supplies.
C18_DiscountIsDerived ==
    crawl.pc # "idle" =>
        \A k \in 1..Len(crawl.products) :
            (crawl.products[k].normal_price > 0 /\ crawl.products[k].sale_price > 0)
                => 10 * crawl.products[k].discount_rate =
                    IF crawl.products[k].normal_price > crawl.products[k].sale_price
                    THEN Round1(crawl.products[k].normal_price
                                    - crawl.products[k].sale_price,
                                crawl.products[k].normal_price)
                    ELSE 0

AppendingOps == {"create", "reconcile", "update", "manual"}

\* C29: registration, reconciliation, refresh and manual crawl only append:
\* across every step of one of these operations each committed row of
\* price_history is still there with the same attribute values, and each
\* row of products is still there unchanged (its price fields included).
C29_OnlyAppend ==
    [][\A s \in procs :
        (sess[s].op \in AppendingOps \/ sess'[s].op \in AppendingOps)
        => /\ price_history \subseteq price_history'
           /\ products \subseteq products']_vars

\* a reconciliation has committed a new product into a database that held
\* history points, and they are all still there
C29_Witness ==
    \E s \in procs :
        /\ sess[s].op = "reconcile" /\ sess[s].outcome = "returned"
        /\ sess[s].added # {}
        /\ {PriceHistoryRow(1, 1), PriceHistoryRow(2, 1)} \subseteq price_history

\* C28: crawl_and_save_multiple_categories makes nothing durable before all
\* snapshots of all categories have been processed.  Every step of a call
\* leaves the committed tables as they are, except one: the commit that is
\* reached after the last snapshot of the last category, which ends the
\* call with its summary.  A call that fails, before or at that commit,
\* therefore persists none of its rows.
C28_CommitsOnceAtTheEnd ==
    [][\A s \in procs :
        (/\ sess[s].op = "reconcile"
         /\ sess'[s] # sess[s]
         /\ (products' # products \/ price_history' # price_history))
        => /\ sess[s].pc = "commit"
           /\ sess[s].ci > Len(sess[s].results)
           /\ sess'[s].pc = "done"
           /\ sess'[s].outcome = "returned"]_vars

\* a call has failed at its commit while the table was still empty: it had
\* flushed a Product row (the row another worker's insert waited for, which
\* made its own flush the victim of the deadlock), and that row is not
\* durable
C28_Witness ==
    \E s \in procs :
        /\ sess[s].op = "reconcile" /\ sess[s].outcome = "raised"
        /\ ~sess[s].active
        /\ product_id_seq >= 2
        /\ products = {}

\* the sum of one count over the per-category results
RECURSIVE SumOf(_, _)
SumOf(category_results, count) ==
    IF Len(category_results) = 0 THEN 0
    ELSE category_results[1][count] + SumOf(Tail(category_results), count)

\* C30: when crawl_and_save_multiple_categories (save_to_db) returns, its
\* total_saved is the number of Product rows the call added to the database,
\* total_saved and total_skipped are the sums of the per-category counts, and
\* in each category saved + skipped <= crawled; this also when a snapshot
\* raised after its Product row was added and flushed.
C30_SavedCountsTheRowsAdded ==
    \A s \in procs :
        LET r == sess[s] IN
        (r.op = "reconcile" /\ r.pc = "done" /\ r.outcome = "returned") =>
            /\ r.total_saved = Cardinality(r.added)
            /\ r.total_saved = SumOf(r.category_results, "saved")
            /\ r.total_skipped = SumOf(r.category_results, "skipped")
            /\ \A i \in 1..Len(r.category_results) :
                    r.category_results[i].saved + r.category_results[i].skipped
                        <= r.category_results[i].crawled

\* update_product_prices is about to re-crawl a product that is not the
\* first of its run
BetweenRecrawls(r) == r.op = "update" /\ r.pc = "crawl" /\ r.k > 1

\* C26: update_product_prices lets the inter-item delay elapse between the
\* re-crawl of one product and the re-crawl of the next, whatever the outcome
\* of the first (a snapshot, None, or an exception): when the re-crawl of
\* product k starts, k - 1 delays have elapsed.
C26_DelayBetweenRecrawls ==
    \A s \in procs :
        BetweenRecrawls(sess[s]) => sess[s].delays = sess[s].k - 1

(***************************************************************************)
(* Claims about the scan over the scripts, checked under SpecExtract.      *)
(***************************************************************************)
\* a marker-bearing script that yields no valid JSON: the assignment is not
\* in it, its braces never balance, or json.loads rejects the isolated text
YieldsNoJson(script) ==
    /\ script.marker
    /\ ~script.pattern \/ ~script.balanced \/ script.parsed.t = "null"

\* a marker-bearing script that holds a valid state object with the three
\* required fields, none of whose values makes the reading of the fields
\* (lines 56-150) raise
HoldsValidState(script) ==
    /\ script.marker /\ script.pattern /\ script.balanced
    /\ script.parsed.t = "obj"
    /\ NonEmptyStr(NameOf(script.parsed))
    /\ NonEmptyStr(BrandNameOf(script.parsed))
    /\ NonEmptyStr(ImageOf(script.parsed))
    /\ SnapshotFromState(script.parsed).kind = "return"

\* C23: a marker-bearing script that does not yield valid JSON does not end
\* the scan of extract_data_from_script_tag: when a script holds a valid state
\* object and every marker-bearing script before it yields no valid JSON, the
\* extraction returns a snapshot; and when no script yields valid JSON the
\* extraction fails.
C23_ScanGoesOnAfterBadScript ==
    xjson # NotCalled =>
        /\ \A i \in 1..Len(xpage) :
            (/\ HoldsValidState(xpage[i])
             /\ \A j \in 1..(i - 1) :
                    xpage[j].marker => YieldsNoJson(xpage[j]))
            => xjson.kind = "return" /\ xjson.value.t = "obj"
        /\ (\A i \in 1..Len(xpage) : xpage[i].marker => YieldsNoJson(xpage[i]))
            => xjson = Return(Null)

(***************************************************************************)
(* Claims about the scrolling and the derived price of                     *)
(* fetch_category_products, checked under SpecCategory.                    *)
(***************************************************************************)
\* C25: the scroll and its settle wait are executed after a round only when
\* the target is not reached and at least one more round remains in the
\* budget: whenever a scroll has completed, the loop test that follows lets
\* another enumeration round start, and a call that ends without an
\* exception has scrolled at most (rounds - 1) times.
C25_ScrollOnlyBeforeARound ==
    /\ (crawl.pc = "while" /\ crawl.scroll_count > 0) =>
            /\ Len(crawl.products) < crawl.target_count
            /\ crawl.scroll_count < max_scrolls
    /\ (crawl.pc = "done" /\ ~crawl.raised) =>
            \/ crawl.scroll_count = 0
            \/ crawl.scroll_count <= crawl.rounds - 1

\* sale_price / (1 - d / 100) rounded to the nearest integer is n
NearestToDerived(n, sale_price, d) ==
    /\ 2 * (100 * sale_price - n * (100 - d)) <= 100 - d
    /\ 2 * (n * (100 - d) - 100 * sale_price) < 100 - d

\* C27: for an element without an original price but with sale_price > 0 and
\* a discount percentage d > 0 (d < 100, where the quotient exists), the
\* snapshot's normal_price is sale_price / (1 - d/100) rounded to the nearest
\* integer; for an element with neither original price nor discount,
\* normal_price equals sale_price.  Stated of every snapshot in the list
\* and every element that gives that snapshot.
C27_DerivedNormalPrice ==
    crawl.pc # "idle" =>
        \A k \in 1..Len(crawl.products) : \A element \in Elements :
            LET snap == crawl.products[k]
                original_price == PyIntAttr(element.attrs[3])
            IN
            (/\ product_data(element, crawl.category_code,
                             crawl.musinsa_categories) = Return(snap)
             /\ original_price = Return(0))
            => /\ (snap.sale_price > 0 /\ snap.discount_rate \in 1..99)
                    => NearestToDerived(snap.normal_price, snap.sale_price,
                                        snap.discount_rate)
               /\ snap.discount_rate = 0 => snap.normal_price = snap.sale_price

(***************************************************************************)
(* Claims about the scheduler and about the brace scan.                    *)
(***************************************************************************)
\* C22: under the triggers of start_scheduler (refresh every hour, discovery
\* every 4 hours, both started together), a run of crawl_all_active_products
\* and a run of discover_new_products are never in progress at the same
\* time.
C22_RefreshAndDiscoveryNeverOverlap ==
    scheduler.running =>
        ~ /\ scheduler.instances["crawl_products_hourly"] > 0
          /\ scheduler.instances["discover_new_products"] > 0

\* C24: for every script in which the state assignment is followed by a
\* well-formed JSON object (any nesting, any string contents), the text the
\* brace scan isolates is exactly that object, from its first { to the }
\* that matches it.
C24_ScanIsolatesTheObject ==
    json_text # NotCalled => json_text = Return(state_object)

====
